---- MODULE Spec2Model ----
(***************************************************************************)
(* Verification model of the Slack message scraper pipeline:               *)
(*   SlackScraper      (src/src/slack_scraper.py)                          *)
(*   MessageProcessor  (src/src/message_processor.py)                      *)
(*   OutputManager     (src/src/output_manager.py)                         *)
(*   SlackMessageAgent (src/src/agent.py)                                  *)
(*   CLI commands      (src/main.py)                                       *)
(* Python Optional values are modelled as sequences of length at most one: *)
(* None is << >> and a present value v is << v >>.  Confidence scores are  *)
(* scaled by 100 so that they are integers (0.8 is 80).                    *)
(***************************************************************************)
EXTENDS Integers, Sequences, FiniteSets, TLC

\* Largest number of entries a conversations.history response carries in a
\* scrape run, and in a scan of the channel for its users.
MaxHist == 2
MaxScan == 4

None == << >>
Some(x) == << x >>

\* Python truthiness of an Optional[str]: None and "" are falsy.
Truthy(o) == o # None /\ o[1] # ""

\* settings.max_messages, the default request limit.
max_messages == MaxScan

(***************************************************************************)
(* Inputs: what the Slack API and the completion API may answer.           *)
(***************************************************************************)

UserIds == {"U1", "U2"}

\* Raw history entries, as the fields get_channel_messages reads from them.
\* The entry's ts is its position in the response.
EntryKinds ==
  { [bot_id |-> None,       subtype |-> None,                 user |-> Some("U1")],
    [bot_id |-> None,       subtype |-> None,                 user |-> Some("U2")],
    [bot_id |-> Some("B1"), subtype |-> None,                 user |-> None],
    [bot_id |-> None,       subtype |-> Some("channel_join"), user |-> Some("U2")],
    [bot_id |-> None,       subtype |-> None,                 user |-> None],
    [bot_id |-> None,       subtype |-> None,                 user |-> Some("")] }

Histories(n) == UNION { [1..k -> EntryKinds] : k \in 0..n }

\* Outcome of one Slack API call: the exception classes the handlers tell apart.
\* "SlackApiError" is the SDK's error for an error response; "OtherError" is any
\* other exception raised by the call (a transport failure, for instance).
ApiFailures == {"SlackApiError", "OtherError"}

\* Outcome of users.info for one user id: a profile with a name, a profile
\* without one, or a failure.
LookupOutcomes == {"name", "noname"} \cup ApiFailures

\* The limit argument of the commands.
Limits == {None} \cup { Some(n) : n \in 0..MaxHist }

\* limit or self.settings.max_messages
RequestLimit(limit) == IF limit = None \/ limit[1] = 0 THEN max_messages ELSE limit[1]

Min(a, b) == IF a < b THEN a ELSE b

(***************************************************************************)
(* SlackScraper                                                            *)
(***************************************************************************)

\* Display name stored in user_cache for uid after a lookup with outcome o.
UserName(uid, o) == IF o = "name" THEN <<"name", uid>> ELSE <<"user_", uid>>

\* SlackMessage(...) as built by the fetcher; classification fields unset.
NewMessage(uid, name, ts) ==
  [user_id |-> uid, username |-> name, ts |-> ts,
   text |-> "text", channel_id |-> "C1", thread_ts |-> None,
   progress |-> None, next_steps |-> None,
   confidence_score |-> None, processed_at |-> None]

\* Mutant: only the bot check is made, system subtypes are let through.
SkippedBotOnly(msg) == Truthy(msg.bot_id)

\* if msg.get('bot_id') or msg.get('subtype'): continue
Skipped(msg) == Truthy(msg.bot_id) \/ Truthy(msg.subtype)

\* Outcome of users.info for uid; an id the workspace does not know is answered
\* with an error response.
Lookup(lk, uid) == IF uid \in DOMAIN lk THEN lk[uid] ELSE "SlackApiError"

\* Mutant: only a missing author id is skipped, an empty one is not.
HasAuthorKey(msg) == msg.user # None

\* user_id = msg.get('user'); if not user_id: continue
HasAuthor(msg) == Truthy(msg.user)

\* The loop over messages_data, from entry i on, with the user cache and the
\* messages appended so far.  lk gives the outcome of users.info per user id.
\* The result lists the users.info requests the loop made, in order.
RECURSIVE FetchLoop(_, _, _, _, _)
FetchLoop(h, lk, i, cache, acc) ==
  IF i > Len(h) THEN [status |-> "ok", messages |-> acc, lookups |-> << >>]
  ELSE IF Skipped(h[i]) THEN FetchLoop(h, lk, i + 1, cache, acc)
  ELSE IF ~HasAuthor(h[i]) THEN FetchLoop(h, lk, i + 1, cache, acc)
  ELSE LET uid == h[i].user[1]
           miss == uid \notin DOMAIN cache
           request == << <<uid, Lookup(lk, uid)>> >>
       IN IF miss /\ Lookup(lk, uid) = "OtherError"
          THEN [status |-> "OtherError", messages |-> << >>, lookups |-> request]
          ELSE LET cache2 == IF miss THEN cache @@ (uid :> UserName(uid, Lookup(lk, uid)))
                                     ELSE cache
                   rest == FetchLoop(h, lk, i + 1, cache2,
                                     Append(acc, NewMessage(uid, cache2[uid], i)))
               IN IF miss THEN [rest EXCEPT !.lookups = request \o @] ELSE rest

\* get_channel_messages: resp is the outcome of conversations.history.
GetChannelMessages(resp, lk) ==
  IF resp.status # "ok"
  THEN [status |-> resp.status, messages |-> << >>, lookups |-> << >>]
  ELSE IF resp.messages = << >>
  THEN [status |-> "ok", messages |-> << >>, lookups |-> << >>]
  ELSE FetchLoop(resp.messages, lk, 1, << >>, << >>)

\* get_user_messages: the channel listing filtered by author id.
GetUserMessages(user_id, resp, lk) ==
  LET all == GetChannelMessages(resp, lk)
  IN [status |-> all.status,
      messages |-> SelectSeq(all.messages, LAMBDA m : m.user_id = user_id),
      lookups |-> all.lookups]

\* Mutant: the except branch reports success.
TestConnectionAlwaysTrue(outcome) ==
  IF outcome = "OtherError" THEN [exc |-> "OtherError", ok |-> FALSE]
  ELSE [exc |-> "none", ok |-> TRUE]

\* test_connection: True, False on SlackApiError, any other exception propagates.
TestConnection(outcome) ==
  IF outcome = "ok" THEN [exc |-> "none", ok |-> TRUE]
  ELSE IF outcome = "SlackApiError" THEN [exc |-> "none", ok |-> FALSE]
  ELSE [exc |-> outcome, ok |-> FALSE]

(***************************************************************************)
(* MessageProcessor                                                        *)
(***************************************************************************)

\* JSON values of a decoded reply (json.loads); JSON null decodes to None.
JNull == [t |-> "null"]
JStr(s) == [t |-> "str", s |-> s]
JNum(n) == [t |-> "num", n |-> n]

\* A JSON object is a function from its keys to JSON values.
Obj(p, n, c) == ("progress" :> p) @@ ("next_steps" :> n) @@ ("confidence" :> c)
ObjProgressOnly(p, c) == ("progress" :> p) @@ ("confidence" :> c)

Malformed == [json |-> "malformed"]
NonObject == [json |-> "value"]
Object(o) == [json |-> "object", obj |-> o]

\* Replies whose text is no JSON object with a numeric confidence.
UnparsableContents ==
  { Malformed, NonObject,
    Object(Obj(JStr("p"), JStr("n"), JStr("high"))),
    Object(Obj(JStr("p"), JStr("n"), JNull)) }

\* Replies that parse.
ParsableContents ==
  { Object(Obj(JStr("p"), JStr("n"), JNum(80))),
    Object(Obj(JStr("p"), JNull, JNum(80))),
    Object(Obj(JStr("p"), JStr("null"), JStr("0.8"))),
    Object(Obj(JNull, JNull, JNum(50))),
    Object(ObjProgressOnly(JStr("p"), JNum(80))) }

Contents == UnparsableContents \cup ParsableContents

\* Outcome of one chat.completions.create call: an exception, a response
\* without content, or a response with content.
ApiError == [k |-> "error"]
NoContent == [k |-> "ok", content |-> None]
Reply(c) == [k |-> "ok", content |-> Some(c)]

FailingResponses == {ApiError, NoContent} \cup { Reply(c) : c \in UnparsableContents }
Responses == FailingResponses \cup { Reply(c) : c \in ParsableContents }

\* dict.get(key, default)
Get(o, key, default) == IF key \in DOMAIN o THEN o[key] ELSE default

\* Strings float() accepts, with their value (scaled by 100).
NumericStrings == ("0.8" :> 80) @@ ("0" :> 0) @@ ("1.0" :> 100)

\* float(x): a number, a numeric string; ValueError for another string,
\* TypeError for None.
Float(jv) ==
  IF jv.t = "num" THEN [exc |-> "none", val |-> jv.n]
  ELSE IF jv.t = "str"
       THEN IF jv.s \in DOMAIN NumericStrings
            THEN [exc |-> "none", val |-> NumericStrings[jv.s]]
            ELSE [exc |-> "ValueError", val |-> 0]
       ELSE [exc |-> "TypeError", val |-> 0]

\* A decoded text field as Optional[str], with the string "null" turned to None.
NullToNone(jv) ==
  IF jv.t = "null" THEN None
  ELSE IF jv.t = "str" THEN (IF jv.s = "null" THEN None ELSE Some(jv.s))
  ELSE Some(jv.n)

Triple(p, n, c) == [exc |-> "none", progress |-> p, next_steps |-> n, confidence |-> c]
Raise(e) == [exc |-> e, progress |-> None, next_steps |-> None, confidence |-> 0]

\* Mutant: a confidence that float() rejects is defaulted to 0.0 and the text
\* fields are kept.
ParseKeepTextOnBadConfidence(c) ==
  IF c.json = "malformed" THEN Triple(None, None, 0)
  ELSE IF c.json = "value" THEN Raise("AttributeError")
  ELSE LET f == Float(Get(c.obj, "confidence", JNum(0)))
       IN Triple(NullToNone(Get(c.obj, "progress", JNull)),
                 NullToNone(Get(c.obj, "next_steps", JNull)),
                 IF f.exc = "none" THEN f.val ELSE 0)

\* _parse_extraction_result: JSONDecodeError, ValueError and KeyError are
\* caught; any other exception leaves the function.
ParseExtractionResult(c) ==
  IF c.json = "malformed" THEN Triple(None, None, 0)
  ELSE IF c.json = "value" THEN Raise("AttributeError")
  ELSE LET f == Float(Get(c.obj, "confidence", JNum(0)))
       IN IF f.exc = "ValueError" THEN Triple(None, None, 0)
          ELSE IF f.exc # "none" THEN Raise(f.exc)
          ELSE Triple(NullToNone(Get(c.obj, "progress", JNull)),
                      NullToNone(Get(c.obj, "next_steps", JNull)),
                      f.val)

\* _extract_progress_and_next_steps: every exception becomes (None, None, 0.0).
ExtractProgressAndNextSteps(resp) ==
  IF resp.k = "error" THEN Triple(None, None, 0)
  ELSE IF resp.content = None THEN Triple(None, None, 0)
  ELSE LET r == ParseExtractionResult(resp.content[1])
       IN IF r.exc # "none" THEN Triple(None, None, 0) ELSE r

\* Mutant: the confidence score is left as it was.
ProcessMessageNoConfidence(message, resp) ==
  LET r == ExtractProgressAndNextSteps(resp)
  IN [message EXCEPT !.progress = r.progress, !.next_steps = r.next_steps,
                     !.processed_at = Some("now")]

\* process_message: annotates the record in place.
ProcessMessage(message, resp) ==
  LET r == ExtractProgressAndNextSteps(resp)
  IN IF r.exc = "none"
     THEN [message EXCEPT !.progress = r.progress,
                          !.next_steps = r.next_steps,
                          !.confidence_score = Some(r.confidence),
                          !.processed_at = Some("now")]
     ELSE [message EXCEPT !.progress = None,
                          !.next_steps = None,
                          !.confidence_score = Some(0),
                          !.processed_at = Some("now")]

(***************************************************************************)
(* Result aggregation (SlackMessageAgent.scrape_and_process)               *)
(***************************************************************************)

\* Mutant: a record counts only when both fields are present.
IsSuccessfulBoth(msg) == msg.progress # None /\ msg.next_steps # None

\* msg.progress is not None or msg.next_steps is not None
IsSuccessful(msg) == msg.progress # None \/ msg.next_steps # None

ProcessingResult(total, processed, failed, results) ==
  [total_messages |-> total, processed_messages |-> processed,
   failed_messages |-> failed, results |-> results]

\* The statistics computed after process_messages.
Aggregate(messages, processed_messages) ==
  LET successful_messages == SelectSeq(processed_messages, IsSuccessful)
  IN ProcessingResult(Len(messages), Len(successful_messages),
                      Len(processed_messages) - Len(successful_messages),
                      processed_messages)

\* Mutant: the tally starts at one and is then incremented.
RECURSIVE TallyFromOne(_, _)
TallyFromOne(messages, users) ==
  IF messages = << >> THEN users
  ELSE LET m == Head(messages)
           known == \E j \in 1..Len(users) : users[j].user_id = m.user_id
           users1 == IF known THEN users
                     ELSE Append(users, [user_id |-> m.user_id,
                                         username |-> m.username,
                                         message_count |-> 1])
       IN TallyFromOne(Tail(messages),
                [j \in 1..Len(users1) |->
                   IF users1[j].user_id = m.user_id
                   THEN [users1[j] EXCEPT !.message_count = @ + 1]
                   ELSE users1[j]])

\* get_users_in_channel: the loop over the fetched messages; users is the
\* dict's values in insertion order.
RECURSIVE Tally(_, _)
Tally(messages, users) ==
  IF messages = << >> THEN users
  ELSE LET m == Head(messages)
           known == \E j \in 1..Len(users) : users[j].user_id = m.user_id
           users1 == IF known THEN users
                     ELSE Append(users, [user_id |-> m.user_id,
                                         username |-> m.username,
                                         message_count |-> 0])
       IN Tally(Tail(messages),
                [j \in 1..Len(users1) |->
                   IF users1[j].user_id = m.user_id
                   THEN [users1[j] EXCEPT !.message_count = @ + 1]
                   ELSE users1[j]])

(***************************************************************************)
(* OutputManager                                                           *)
(***************************************************************************)

\* Values of datetime.now().strftime("%Y%m%d_%H%M%S") a save may read.
Timestamps == {"20240101_120000", "20240101_120001"}

\* Strings that are inspected character by character are sequences of
\* one-character strings.
UpperOf == ("j" :> "J") @@ ("s" :> "S") @@ ("o" :> "O") @@ ("n" :> "N") @@
           ("c" :> "C") @@ ("v" :> "V") @@ ("x" :> "X") @@ ("m" :> "M") @@
           ("l" :> "L")

json == <<"j", "s", "o", "n">>
csv == <<"c", "s", "v">>
xml == <<"x", "m", "l">>

\* Every spelling of w in upper and lower case.
CaseVariants(w) ==
  { f \in [1..Len(w) -> {w[k] : k \in 1..Len(w)} \cup {UpperOf[w[k]] : k \in 1..Len(w)}] :
      \A k \in 1..Len(w) : f[k] \in {w[k], UpperOf[w[k]]} }

\* Format values handed to save_results by a run.
Formats ==
  { json, <<"J", "S", "O", "N">>, <<"J", "s", "o", "n">>, <<"j", "S", "o", "N">>,
    csv, <<"C", "S", "V">>, <<"c", "s", "V">>,
    xml, <<"X", "M", "L">>,
    <<"j", "s">>, <<"j", "s", "o", "n", "l">>, <<"c", "s", "v", "s">> }

\* The --format argument, and the OUTPUT_FORMAT setting it falls back to.
FormatArgs == {None, Some(<< >>)} \cup { Some(f) : f \in Formats }
SettingFormats == { json, <<"C", "S", "V">>, xml }

\* output_format or self.settings.output_format
FormatOr(arg, setting) == IF arg = None \/ arg[1] = << >> THEN setting ELSE arg[1]

\* The formats a run may end up saving in.
RunFormats == { FormatOr(arg, setting) : arg \in FormatArgs, setting \in SettingFormats }

\* str.lower() on one character and on a string.
LowerChar(c) ==
  IF \E l \in DOMAIN UpperOf : UpperOf[l] = c
  THEN CHOOSE l \in DOMAIN UpperOf : UpperOf[l] = c
  ELSE c
Lower(str) == [k \in 1..Len(str) |-> LowerChar(str[k])]

\* The columns of the CSV form.
fieldnames == <<"user_id", "username", "timestamp", "text", "channel_id",
                "thread_ts", "progress", "next_steps", "processed_at",
                "confidence_score">>

FileName(timestamp, ext) == <<"slack_messages_", timestamp, ext>>

\* _save_as_json / _save_as_csv: the file that open(filepath, 'w') leaves.
SaveAsJson(result, filename) ==
  [name |-> filename, form |-> "json", header |-> << >>, body |-> result]
\* SlackMessage.to_dict
ToDict(m) ==
  [c \in {fieldnames[k] : k \in 1..Len(fieldnames)} |->
     CASE c = "user_id" -> m.user_id
       [] c = "username" -> m.username
       [] c = "timestamp" -> m.ts
       [] c = "text" -> m.text
       [] c = "channel_id" -> m.channel_id
       [] c = "thread_ts" -> m.thread_ts
       [] c = "progress" -> m.progress
       [] c = "next_steps" -> m.next_steps
       [] c = "processed_at" -> m.processed_at
       [] c = "confidence_score" -> m.confidence_score]

\* writer.writerow(d): the values of d in the order of the header.
WriteRow(d) == [k \in 1..Len(fieldnames) |-> d[fieldnames[k]]]

\* Mutant: only the records that count as successful are written.
SaveAsCsvSuccessfulOnly(result, filename) ==
  [name |-> filename, form |-> "csv", header |-> fieldnames,
   body |-> LET kept == SelectSeq(result.results, IsSuccessful)
            IN [k \in 1..Len(kept) |-> WriteRow(ToDict(kept[k]))]]

SaveAsCsv(result, filename) ==
  [name |-> filename, form |-> "csv", header |-> fieldnames,
   body |-> [k \in 1..Len(result.results) |-> WriteRow(ToDict(result.results[k]))]]

\* Mutant: the format is compared as given.
SaveResultsCaseSensitive(result, format, timestamp) ==
  IF format = json
  THEN [exc |-> "none", file |-> Some(SaveAsJson(result, FileName(timestamp, "json")))]
  ELSE IF format = csv
  THEN [exc |-> "none", file |-> Some(SaveAsCsv(result, FileName(timestamp, "csv")))]
  ELSE [exc |-> "ValueError", file |-> None]

\* save_results: the file written, or ValueError for an unsupported format.
SaveResults(result, format, timestamp) ==
  IF Lower(format) = json
  THEN [exc |-> "none", file |-> Some(SaveAsJson(result, FileName(timestamp, "json")))]
  ELSE IF Lower(format) = csv
  THEN [exc |-> "none", file |-> Some(SaveAsCsv(result, FileName(timestamp, "csv")))]
  ELSE [exc |-> "ValueError", file |-> None]

\* print_summary: the success-rate line divides by result.total_messages.
PrintSummary(result) ==
  IF result.total_messages = 0
  THEN [exc |-> "ZeroDivisionError", rate |-> 0]
  ELSE [exc |-> "none",
        rate |-> (result.processed_messages * 100) \div result.total_messages]

\* run_full_pipeline shows the first 5 results.
PreviewLimit == 5

\* print_results: the number of records shown.
PrintResults(result, limit) ==
  IF Len(result.results) > limit THEN limit ELSE Len(result.results)

(***************************************************************************)
(* Settings                                                                *)
(***************************************************************************)

\* Values of the environment: a variable is unset (None) or set to a string.
\* MAX_MESSAGES is read character by character.
RequiredValues == {None, Some(""), Some("secret")}
MaxMessagesValues ==
  { None,
    Some(<<"5">>),
    Some(<<"2", "0">>),
    Some(<<"5", " ", "#", " ", "m", "a", "x">>),
    Some(<<" ", "7", " ">>),
    Some(<<"3", "#", "4">>),
    Some(<<"a", "b">>),
    Some(<< >>),
    Some(<<"#", "5">>) }

Environments ==
  [SLACK_BOT_TOKEN : RequiredValues,
   SLACK_CHANNEL_ID : RequiredValues,
   OPENAI_API_KEY : RequiredValues,
   OUTPUT_FORMAT : {None, Some("csv")},
   LOG_LEVEL : {None, Some("DEBUG")},
   MAX_MESSAGES : MaxMessagesValues]

\* os.getenv(name, default)
Getenv(e, name, default) == IF e[name] = None THEN default ELSE e[name][1]

\* s.split('#')[0]
RECURSIVE BeforeHash(_)
BeforeHash(str) ==
  IF str = << >> \/ Head(str) = "#" THEN << >>
  ELSE <<Head(str)>> \o BeforeHash(Tail(str))

\* s.strip()
RECURSIVE LStrip(_)
LStrip(str) == IF str # << >> /\ Head(str) = " " THEN LStrip(Tail(str)) ELSE str
RECURSIVE RStrip(_)
RStrip(str) ==
  IF str # << >> /\ str[Len(str)] = " " THEN RStrip(SubSeq(str, 1, Len(str) - 1))
  ELSE str
Strip(str) == RStrip(LStrip(str))

Digits == ("0" :> 0) @@ ("1" :> 1) @@ ("2" :> 2) @@ ("3" :> 3) @@ ("4" :> 4) @@
          ("5" :> 5) @@ ("6" :> 6) @@ ("7" :> 7) @@ ("8" :> 8) @@ ("9" :> 9)

RECURSIVE DigitsValue(_)
DigitsValue(str) ==
  IF str = << >> THEN 0
  ELSE 10 * DigitsValue(SubSeq(str, 1, Len(str) - 1)) + Digits[str[Len(str)]]

\* int(s) of a string of decimal digits; ValueError for any other string here.
ParseInt(str) ==
  IF str # << >> /\ \A k \in 1..Len(str) : str[k] \in DOMAIN Digits
  THEN [exc |-> "none", val |-> DigitsValue(str)]
  ELSE [exc |-> "ValueError", val |-> 0]

Loaded(e, n) ==
  [exc |-> "none", message |-> "",
   output_format |-> Getenv(e, "OUTPUT_FORMAT", "json"),
   log_level |-> Getenv(e, "LOG_LEVEL", "INFO"),
   max_messages |-> Some(n)]
Rejected(message) ==
  [exc |-> "ValueError", message |-> message,
   output_format |-> "", log_level |-> "", max_messages |-> None]

\* max_messages_raw.split('#')[0].strip()
MaxMessagesClean(raw) == Strip(BeforeHash(raw))

\* Settings.__init__: the message limit is parsed before the required
\* variables are validated.
LoadSettings(e) ==
  LET n == ParseInt(MaxMessagesClean(Getenv(e, "MAX_MESSAGES", <<"1", "0", "0">>)))
  IN IF n.exc # "none" THEN Rejected("invalid literal for int()")
     ELSE IF Getenv(e, "SLACK_BOT_TOKEN", "") = "" THEN Rejected("SLACK_BOT_TOKEN")
     ELSE IF Getenv(e, "SLACK_CHANNEL_ID", "") = "" THEN Rejected("SLACK_CHANNEL_ID")
     ELSE IF Getenv(e, "OPENAI_API_KEY", "") = "" THEN Rejected("OPENAI_API_KEY")
     ELSE Loaded(e, n.val)

(***************************************************************************)
(* State                                                                   *)
(***************************************************************************)

VARIABLES
  cmd,          \* the command being run: "scrape", "users" or "test"
  pc,           \* position of the command
  err,          \* the exception that ended the command, or "none"
  history,      \* the outcome of the conversations.history request, once made
  user_arg,     \* the --user argument of the run
  messages,     \* the fetched records, annotated in place by the classifier
  idx,          \* index of the next record handed to process_message
  outcome,      \* per handled record, whether its completion call failed
  result,       \* the ProcessingResult, once built
  files,        \* the files of the output directory
  output_file,  \* the path save_results returned
  returned,     \* the value run_full_pipeline returned
  users,        \* the value get_users_in_channel returned
  call_format,  \* the format argument of a direct save_results call
  env,          \* the environment variables Settings() reads
  settings,     \* the outcome of Settings(), once it ran
  lookups,      \* the users.info requests of the fetch, with their outcomes
  log           \* the requests and stages of the command, in order

vars == <<cmd, pc, err, history, user_arg, messages, idx, outcome, result,
          files, output_file, returned, users, call_format, env, settings, lookups, log>>

Commands == {"scrape", "users", "test"}

HistoryResponses(n) ==
  { [status |-> "ok", messages |-> h] : h \in Histories(n) }
  \cup { [status |-> f, messages |-> << >>] : f \in ApiFailures }

UserArgs == {None} \cup { Some(u) : u \in UserIds }

Init ==
  /\ cmd \in Commands
  /\ pc = "start"
  /\ err = "none"
  /\ history = None
  /\ user_arg = None
  /\ messages = << >>
  /\ idx = 1
  /\ outcome = << >>
  /\ result = None
  /\ files = {}
  /\ output_file = None
  /\ returned = None
  /\ users = None
  /\ call_format = None
  /\ env = None
  /\ settings = None
  /\ lookups = << >>
  /\ log = << >>

\* An exception leaves the command; main.py prints it and exits non-zero.
Fail(e) == pc' = "failed" /\ err' = e

(***************************************************************************)
(* scrape: run_full_pipeline / scrape_and_process                          *)
(***************************************************************************)

\* agent.py 44-46
CheckConnection ==
  /\ cmd = "scrape" /\ pc = "start"
  /\ \E o \in {"ok"} \cup ApiFailures :
       LET r == TestConnection(o)
       IN /\ log' = Append(log, <<"auth_test", o>>)
          /\ IF r.exc # "none" THEN Fail(r.exc)
             ELSE IF ~r.ok THEN Fail("RuntimeError")
             ELSE pc' = "fetch" /\ err' = err
  /\ UNCHANGED <<cmd, history, user_arg, messages, idx, outcome, result, files,
                 output_file, returned, users, call_format, env, settings, lookups>>

\* agent.py 48-52
Fetch ==
  /\ cmd = "scrape" /\ pc = "fetch"
  /\ \E user_id \in UserArgs, limit \in Limits, lk \in [UserIds -> LookupOutcomes] :
     \E resp \in HistoryResponses(Min(RequestLimit(limit), MaxHist)) :
       LET r == IF Truthy(user_id) THEN GetUserMessages(user_id[1], resp, lk)
                ELSE GetChannelMessages(resp, lk)
       IN /\ log' = Append(log, <<"history", resp.status>>)
          /\ history' = Some(resp)
          /\ user_arg' = user_id
          /\ lookups' = r.lookups
          /\ IF r.status # "ok"
             THEN Fail(r.status) /\ messages' = messages
             ELSE pc' = "fetched" /\ err' = err /\ messages' = r.messages
  /\ UNCHANGED <<cmd, idx, outcome, result, files, output_file, returned, users,
                 call_format, env, settings>>

\* agent.py 54-61
ReturnEmpty ==
  /\ cmd = "scrape" /\ pc = "fetched" /\ messages = << >>
  /\ result' = Some(ProcessingResult(0, 0, 0, << >>))
  /\ pc' = "save"
  /\ UNCHANGED <<cmd, err, history, user_arg, messages, idx, outcome, files,
                 output_file, returned, users, call_format, env, settings, lookups, log>>

\* Mutant: a failed completion request is issued once more before its outcome
\* is recorded.
ProcessNextRetryOnce ==
  /\ cmd = "scrape" /\ pc = "fetched" /\ messages # << >> /\ idx <= Len(messages)
  /\ log' = Append(log, <<"completion", messages[idx].ts>>)
  /\ \E resp \in Responses :
       IF resp \in FailingResponses /\ log[Len(log)] # <<"completion", messages[idx].ts>>
       THEN UNCHANGED <<messages, outcome, idx>>
       ELSE /\ messages' = [messages EXCEPT ![idx] = ProcessMessage(@, resp)]
            /\ outcome' = Append(outcome, IF resp \in FailingResponses THEN "failed"
                                          ELSE "answered")
            /\ idx' = idx + 1
  /\ UNCHANGED <<cmd, pc, err, history, user_arg, result, files, output_file,
                 returned, users, call_format, env, settings, lookups>>

\* One turn of the loop of process_messages.
ProcessNext ==
  /\ cmd = "scrape" /\ pc = "fetched" /\ messages # << >> /\ idx <= Len(messages)
  /\ \E resp \in Responses :
       /\ messages' = [messages EXCEPT ![idx] = ProcessMessage(@, resp)]
       /\ outcome' = Append(outcome, IF resp \in FailingResponses THEN "failed"
                                     ELSE "answered")
  /\ log' = Append(log, <<"completion", messages[idx].ts>>)
  /\ idx' = idx + 1
  /\ UNCHANGED <<cmd, pc, err, history, user_arg, result, files, output_file,
                 returned, users, call_format, env, settings, lookups>>

\* agent.py 67-79
AggregateResults ==
  /\ cmd = "scrape" /\ pc = "fetched" /\ messages # << >> /\ idx > Len(messages)
  /\ result' = Some(Aggregate(messages, SubSeq(messages, 1, idx - 1)))
  /\ log' = Append(log, <<"aggregate">>)
  /\ pc' = "save"
  /\ UNCHANGED <<cmd, err, history, user_arg, messages, idx, outcome, files,
                 output_file, returned, users, call_format, env, settings, lookups>>

\* agent.py 99-100
Save ==
  /\ cmd = "scrape" /\ pc = "save"
  /\ \E format \in RunFormats, timestamp \in Timestamps :
       LET r == SaveResults(result[1], format, timestamp)
       IN IF r.exc # "none"
          THEN Fail(r.exc) /\ UNCHANGED <<files, output_file, log>>
          ELSE /\ files' = { f \in files : f.name # r.file[1].name } \cup {r.file[1]}
               /\ output_file' = Some(r.file[1].name)
               /\ log' = Append(log, <<"write">>)
               /\ pc' = "summary" /\ err' = err
  /\ UNCHANGED <<cmd, history, user_arg, messages, idx, outcome, result, returned,
                 users, call_format, env, settings, lookups>>

\* agent.py 103
Summary ==
  /\ cmd = "scrape" /\ pc = "summary"
  /\ LET r == PrintSummary(result[1])
     IN IF r.exc # "none"
        THEN Fail(r.exc) /\ log' = log
        ELSE pc' = "preview" /\ err' = err /\ log' = Append(log, <<"summary">>)
  /\ UNCHANGED <<cmd, history, user_arg, messages, idx, outcome, result, files,
                 output_file, returned, users, call_format, env, settings, lookups>>

\* agent.py 105-108
PreviewAndReturn ==
  /\ cmd = "scrape" /\ pc = "preview"
  /\ \E show_results \in BOOLEAN :
       log' = IF show_results
              THEN log \o << <<"preview", PrintResults(result[1], PreviewLimit)>>,
                             <<"return">> >>
              ELSE Append(log, <<"return">>)
  /\ returned' = output_file
  /\ pc' = "done"
  /\ UNCHANGED <<cmd, err, history, user_arg, messages, idx, outcome, result, files,
                 output_file, users, call_format, env, settings, lookups>>

(***************************************************************************)
(* users: get_users_in_channel                                             *)
(***************************************************************************)

ListUsers ==
  /\ cmd = "users" /\ pc = "start"
  /\ \E lk \in [UserIds -> LookupOutcomes], resp \in HistoryResponses(max_messages) :
       LET r == GetChannelMessages(resp, lk)
       IN /\ log' = Append(log, <<"history", resp.status>>)
          /\ history' = Some(resp)
          /\ lookups' = r.lookups
          /\ IF r.status # "ok"
             THEN Fail(r.status) /\ UNCHANGED <<messages, users>>
             ELSE /\ pc' = "done" /\ err' = err
                  /\ messages' = r.messages
                  /\ users' = Some(Tally(r.messages, << >>))
  /\ UNCHANGED <<cmd, user_arg, idx, outcome, result, files, output_file, returned,
                 call_format, env, settings>>

(***************************************************************************)
(* test: the connection checks of main.py                                  *)
(***************************************************************************)

\* main.py 101-107: the fixed sample message.
test_message ==
  [NewMessage("test_user", <<"test_user">>, 0)
     EXCEPT !.text = "sample", !.channel_id = "test_channel"]

\* main.py 111-116: what is printed about the completion API.
OpenAIReport(processed) ==
  IF Truthy(processed.progress) /\ Truthy(processed.next_steps)
  THEN <<"report", "openai", "successful">>
  ELSE <<"report", "openai", "tuning">>

\* main.py 93-97 and 120-122: the Slack check.  A False result prints the
\* failure and raises typer.Exit(1) inside the try block; typer.Exit is an
\* Exception, so the handler prints it as an error and raises Exit(1) again.
\* An exception of test_connection is printed by the handler in the same way.
TestSlack ==
  /\ cmd = "test" /\ pc = "start"
  /\ \E o \in {"ok"} \cup ApiFailures :
       LET r == TestConnection(o)
       IN IF r.exc # "none"
          THEN /\ log' = log \o << <<"auth_test", o>>, <<"error", r.exc>> >>
               /\ Fail("Exit")
          ELSE IF ~r.ok
          THEN /\ log' = log \o << <<"auth_test", o>>,
                                   <<"report", "slack", "failed">>,
                                   <<"error", "Exit">> >>
               /\ Fail("Exit")
          ELSE /\ log' = log \o << <<"auth_test", o>>,
                                   <<"report", "slack", "successful">> >>
               /\ pc' = "classify" /\ err' = err
  /\ UNCHANGED <<cmd, history, user_arg, messages, idx, outcome, result, files,
                 output_file, returned, users, call_format, env, settings, lookups>>

\* main.py 99-118: the completion check on the sample message.
TestOpenAI ==
  /\ cmd = "test" /\ pc = "classify"
  /\ \E resp \in Responses :
       LET processed == ProcessMessage(test_message, resp)
       IN /\ messages' = <<processed>>
          /\ outcome' = Append(outcome, IF resp \in FailingResponses THEN "failed"
                                        ELSE "answered")
          /\ log' = log \o << <<"completion", test_message.ts>>,
                              OpenAIReport(processed), <<"ready">> >>
  /\ idx' = idx + 1
  /\ pc' = "done"
  /\ UNCHANGED <<cmd, err, history, user_arg, result, files, output_file,
                 returned, users, call_format, env, settings, lookups>>

(***************************************************************************)
(* OutputManager.save_results called on its own                            *)
(***************************************************************************)

\* Format values of a direct call.
CallFormats ==
  CaseVariants(json) \cup CaseVariants(csv) \cup CaseVariants(xml)
  \cup { << >>, <<"j", "s">>, <<"j", "s", "o", "n", "l">>, <<"c", "s", "v", "s">> }

\* Results of batches of at most one message.
SampleMessages ==
  { ProcessMessage(NewMessage("U1", UserName("U1", "name"), 1), r) : r \in Responses }
SampleResults ==
  { ProcessingResult(0, 0, 0, << >>) }
  \cup { Aggregate(<<m>>, <<m>>) : m \in SampleMessages }

\* A file an earlier save left in the output directory.
EarlierFile ==
  SaveAsJson(ProcessingResult(0, 0, 0, << >>), FileName("20240101_120000", "json"))

InitSave ==
  /\ cmd = "save_results"
  /\ pc = "save"
  /\ err = "none"
  /\ history = None
  /\ user_arg = None
  /\ messages = << >>
  /\ idx = 1
  /\ outcome = << >>
  /\ result \in { Some(r) : r \in SampleResults }
  /\ files \in { {}, {EarlierFile} }
  /\ output_file = None
  /\ returned = None
  /\ users = None
  /\ call_format \in { Some(f) : f \in CallFormats }
  /\ env = None
  /\ settings = None
  /\ lookups = << >>
  /\ log = << >>

SaveResultsCall ==
  /\ cmd = "save_results" /\ pc = "save"
  /\ \E timestamp \in Timestamps :
       LET r == SaveResults(result[1], call_format[1], timestamp)
       IN IF r.exc # "none"
          THEN Fail(r.exc) /\ UNCHANGED <<files, output_file, log>>
          ELSE /\ files' = { f \in files : f.name # r.file[1].name } \cup {r.file[1]}
               /\ output_file' = Some(r.file[1].name)
               /\ log' = Append(log, <<"write">>)
               /\ pc' = "done" /\ err' = err
  /\ UNCHANGED <<cmd, history, user_arg, messages, idx, outcome, result, returned,
                 users, call_format, env, settings, lookups>>

NextSave == SaveResultsCall

SpecSave == InitSave /\ [][NextSave]_vars

(***************************************************************************)
(* Settings() called at the start of a command                             *)
(***************************************************************************)

InitSettings ==
  /\ cmd = "config"
  /\ pc = "start"
  /\ err = "none"
  /\ history = None
  /\ user_arg = None
  /\ messages = << >>
  /\ idx = 1
  /\ outcome = << >>
  /\ result = None
  /\ files = {}
  /\ output_file = None
  /\ returned = None
  /\ users = None
  /\ call_format = None
  /\ env \in { Some(e) : e \in Environments }
  /\ settings = None
  /\ lookups = << >>
  /\ log = << >>

\* main.py config: get_settings()
GetSettings ==
  /\ cmd = "config" /\ pc = "start"
  /\ LET r == LoadSettings(env[1])
     IN /\ settings' = Some(r)
        /\ IF r.exc # "none" THEN Fail(r.exc) ELSE pc' = "done" /\ err' = err
  /\ UNCHANGED <<cmd, history, user_arg, messages, idx, outcome, result, files,
                 output_file, returned, users, call_format, env, lookups, log>>

NextSettings == GetSettings

SpecSettings == InitSettings /\ [][NextSettings]_vars

Next ==
  \/ CheckConnection
  \/ Fetch
  \/ ReturnEmpty
  \/ ProcessNext
  \/ AggregateResults
  \/ Save
  \/ Summary
  \/ PreviewAndReturn
  \/ ListUsers
  \/ TestSlack
  \/ TestOpenAI

Spec == Init /\ [][Next]_vars

(***************************************************************************)
(* Properties                                                              *)
(***************************************************************************)

Count(seq, P(_)) == Cardinality({ k \in 1..Len(seq) : P(seq[k]) })

HasEvent(tag) == \E k \in 1..Len(log) : log[k][1] = tag
Events(tag) == { k \in 1..Len(log) : log[k][1] = tag }

\* The history request was answered and the fetch returned its records.
FetchReturned ==
  /\ history # None
  /\ history[1].status = "ok"
  /\ ~(pc = "failed" /\ err \in ApiFailures)

\* An entry with no bot id, no subtype and a non-empty author id.
Eligible(e) ==
  /\ e.bot_id = None
  /\ e.subtype = None
  /\ e.user # None
  /\ e.user # Some("")

\* The positions of the eligible entries of a history, in order.
EligibleIdx(h) == SelectSeq([k \in 1..Len(h) |-> k], LAMBDA k : Eligible(h[k]))

\* The records the run asked for: the eligible entries, of the one author
\* when --user is given.
Wanted(h) ==
  SelectSeq(EligibleIdx(h),
            LAMBDA k : user_arg = None \/ h[k].user = user_arg)

ZeroResult == [total_messages |-> 0, processed_messages |-> 0,
               failed_messages |-> 0, results |-> << >>]

\* C1: in every batch result of a scrape, total is the number of records,
\* successfully-processed is exactly the number of records whose progress or
\* next_steps is present, failed is the number of records with both absent,
\* and total = successfully-processed + failed.
C1_CountsAddUp ==
  (cmd = "scrape" /\ result # None) =>
    LET r == result[1]
        present(m) == m.progress # None \/ m.next_steps # None
        absent(m) == m.progress = None /\ m.next_steps = None
    IN /\ r.total_messages = r.processed_messages + r.failed_messages
       /\ r.total_messages = Len(messages)
       /\ r.processed_messages = Count(r.results, present)
       /\ r.failed_messages = Count(r.results, absent)

\* A batch of two records, one with only progress present and one with both
\* fields absent.
C1_Witness ==
  /\ cmd = "scrape" /\ result # None
  /\ result[1].total_messages = 2
  /\ result[1].processed_messages = 1
  /\ result[1].failed_messages = 1
  /\ \E k \in 1..2 : /\ result[1].results[k].progress # None
                     /\ result[1].results[k].next_steps = None

\* C2: when the fetch yields no eligible message (empty history, or every entry
\* filtered out), no completion request is issued and the batch result the run
\* builds has all counts zero and no records.
C2_EmptyFetchShortCircuits ==
  (cmd = "scrape" /\ FetchReturned /\ Wanted(history[1].messages) = << >>) =>
    /\ ~HasEvent("completion")
    /\ outcome = << >>
    /\ pc # "fetched" => result = Some(ZeroResult)

\* A run over a history of two filtered-out entries that has built its result.
C2_Witness ==
  /\ cmd = "scrape" /\ FetchReturned
  /\ Len(history[1].messages) = 2
  /\ Wanted(history[1].messages) = << >>
  /\ result = Some(ZeroResult)
  /\ pc = "summary"

\* C3: the summary of a batch with total = 0 is guarded against division by
\* zero, so a run whose fetch returns no message prints its summary and
\* returns the output file path without raising.
C3_EmptySummaryGuarded ==
  (cmd = "scrape" /\ result # None /\ result[1].total_messages = 0
     /\ output_file # None) =>
    /\ err = "none"
    /\ pc \in {"summary", "preview", "done"}

\* A format that equals w when case is ignored.
SameIgnoringCase(f, w) ==
  /\ Len(f) = Len(w)
  /\ \A k \in 1..Len(w) : f[k] = w[k] \/ f[k] = UpperOf[w[k]]

\* C4: save_results accepts exactly json and csv, compared case-insensitively,
\* and writes a file of that form; for every other format it fails with the
\* unsupported-format error and leaves the files of the output directory as
\* they were.
C4_SaveFormats ==
  [][ (cmd = "save_results" /\ pc = "save") =>
        IF SameIgnoringCase(call_format[1], json) \/ SameIgnoringCase(call_format[1], csv)
        THEN /\ pc' = "done" /\ err' = "none"
             /\ output_file' # None
             /\ \E f \in files' :
                  /\ f.name = output_file'[1]
                  /\ SameIgnoringCase(call_format[1], <<"j", "s", "o", "n">>)
                       => f.form = "json" /\ f.name[3] = "json"
                  /\ SameIgnoringCase(call_format[1], <<"c", "s", "v">>)
                       => f.form = "csv" /\ f.name[3] = "csv"
        ELSE /\ pc' = "failed" /\ err' = "ValueError"
             /\ files' = files
             /\ output_file' = None ]_vars

\* A failed save of format xml with the earlier file still in place.
C4_Witness ==
  /\ cmd = "save_results" /\ pc = "failed" /\ err = "ValueError"
  /\ call_format = Some(xml)
  /\ files = {EarlierFile}

\* C5: process_messages handles every record, in order, whatever completion
\* calls fail: a record whose call failed (API error, no content, unparsable
\* reply) ends with progress absent, next_steps absent and confidence 0, and
\* the records after it are still classified; the result has the length and
\* order of the fetched sequence.
C5_FailuresDoNotAbort ==
  /\ Len(outcome) = idx - 1
  /\ \A k \in 1..Len(outcome) :
       /\ messages[k].processed_at # None
       /\ outcome[k] = "failed" =>
            /\ messages[k].progress = None
            /\ messages[k].next_steps = None
            /\ messages[k].confidence_score = Some(0)
  /\ (cmd = "scrape" /\ result # None) =>
       /\ Len(outcome) = Len(messages)
       /\ Len(result[1].results) = Len(Wanted(history[1].messages))
       /\ \A k \in 1..Len(result[1].results) :
            result[1].results[k].ts = Wanted(history[1].messages)[k]

\* A batch whose first call failed and whose second record was classified.
C5_Witness ==
  /\ cmd = "scrape" /\ result # None
  /\ outcome = <<"failed", "answered">>
  /\ result[1].results[1].confidence_score = Some(0)
  /\ result[1].results[2].progress # None

\* C6 as stated: every record is all unset, all three present, or progress
\* absent, next_steps absent and confidence 0.
C6_ThreeShapesOnly ==
  \A k \in 1..Len(messages) :
    LET m == messages[k]
    IN \/ m.progress = None /\ m.next_steps = None /\ m.confidence_score = None
       \/ m.progress # None /\ m.next_steps # None /\ m.confidence_score # None
       \/ m.progress = None /\ m.next_steps = None /\ m.confidence_score = Some(0)

\* C6 amended: a record is either not yet classified, with progress, next_steps,
\* confidence and processing instant all unset, or classified, with confidence
\* and processing instant both set and each of progress and next_steps present
\* or absent as the reply gave them; a failed classification leaves progress
\* absent, next_steps absent and confidence 0.
C6_SetTogether ==
  \A k \in 1..Len(messages) :
    LET m == messages[k]
    IN IF k < idx
       THEN /\ m.confidence_score # None
            /\ m.processed_at # None
            /\ outcome[k] = "failed" =>
                 m.progress = None /\ m.next_steps = None /\ m.confidence_score = Some(0)
       ELSE /\ m.progress = None /\ m.next_steps = None
            /\ m.confidence_score = None /\ m.processed_at = None

\* A classified record with progress present and next_steps absent, next to a
\* record that is not classified yet.
C6_Witness ==
  /\ cmd = "scrape" /\ Len(messages) = 2 /\ idx = 2
  /\ messages[1].progress # None
  /\ messages[1].next_steps = None
  /\ messages[1].confidence_score = Some(80)
  /\ messages[2].confidence_score = None

\* C7: get_channel_messages returns exactly the entries with no bot id, no
\* subtype and a non-empty author id, one record per entry, in the order of the
\* response.
C7_ExactlyEligible ==
  (cmd \in {"scrape", "users"} /\ FetchReturned /\ user_arg = None) =>
    LET h == history[1].messages
    IN /\ Len(messages) = Len(EligibleIdx(h))
       /\ \A k \in 1..Len(messages) :
            /\ messages[k].ts = EligibleIdx(h)[k]
            /\ Some(messages[k].user_id) = h[messages[k].ts].user

\* A scan that dropped an entry with an empty author id between two kept ones.
C7_Witness ==
  /\ cmd = "users" /\ pc = "done"
  /\ Len(history[1].messages) = 3
  /\ history[1].messages[2].user = Some("")
  /\ Len(messages) = 2
  /\ messages[2].ts = 3

\* C8: a failed history request fails the fetch with no records, no completion
\* request and no file written, and it is the only thing that fails the fetch:
\* no failure while handling the entries (a failed name lookup in particular)
\* does.
C8_HistoryFailureOnlyFatalPath ==
  /\ (history # None /\ history[1].status # "ok") =>
       /\ pc = "failed" /\ err = history[1].status
       /\ messages = << >> /\ files = {} /\ ~HasEvent("completion")
  /\ (history # None /\ pc = "failed" /\ err \in ApiFailures) =>
       history[1].status # "ok"

\* Position of a stage in a run.
Rank(tag) ==
  CASE tag = "auth_test" -> 1
    [] tag = "history" -> 2
    [] tag = "completion" -> 3
    [] tag = "aggregate" -> 4
    [] tag = "write" -> 5
    [] tag = "summary" -> 6
    [] tag = "preview" -> 7
    [] tag = "return" -> 8

\* C9: a run goes through connectivity check, fetch, classification of every
\* fetched message, aggregation, file write, summary, optional preview and
\* return in that order; when the connectivity check reports failure the run
\* fails with the connection error and makes no fetch request, no completion
\* request and no file write.
C9_StageOrder ==
  cmd = "scrape" =>
    /\ \A a, b \in 1..Len(log) :
         a < b => \/ Rank(log[a][1]) < Rank(log[b][1])
                  \/ log[a][1] = "completion" /\ log[b][1] = "completion"
    /\ \A b \in 1..Len(log) :
         /\ log[b][1] # "auth_test" => log[1] = <<"auth_test", "ok">>
         /\ Rank(log[b][1]) > 2 => HasEvent("history")
         /\ Rank(log[b][1]) > 5 => HasEvent("write")
         /\ Rank(log[b][1]) > 6 => HasEvent("summary")
    /\ HasEvent("write") =>
         /\ Cardinality(Events("completion")) = Len(messages)
         /\ \A k \in 1..Len(messages) :
              <<"completion", messages[k].ts>> = log[2 + k]
         /\ messages # << >> => HasEvent("aggregate")
    /\ returned # None => HasEvent("return") /\ returned = output_file
    /\ (log # << >> /\ log[1] = <<"auth_test", "SlackApiError">>) =>
         /\ pc = "failed" /\ err = "RuntimeError"
         /\ Len(log) = 1 /\ history = None /\ files = {}

\* A completed run over two messages that showed the preview.
C9_Witness ==
  /\ cmd = "scrape" /\ pc = "done" /\ returned # None
  /\ Len(messages) = 2
  /\ HasEvent("preview")
  /\ Len(log) = 9

RECURSIVE SumCounts(_)
SumCounts(us) == IF us = << >> THEN 0 ELSE Head(us).message_count + SumCounts(Tail(us))

\* Position of the first record of an author in the fetched sequence.
FirstSeen(uid) == CHOOSE k \in 1..Len(messages) :
                    /\ messages[k].user_id = uid
                    /\ \A j \in 1..(k - 1) : messages[j].user_id # uid

\* C10: get_users_in_channel returns one entry per distinct author id of the
\* fetched sequence, in order of first appearance, each with the number of
\* fetched messages by that author; the counts sum to the length of the
\* fetched sequence.
C10_AuthorTally ==
  (cmd = "users" /\ users # None) =>
    LET us == users[1]
    IN /\ { us[a].user_id : a \in 1..Len(us) } = { messages[k].user_id : k \in 1..Len(messages) }
       /\ \A a, b \in 1..Len(us) : a # b => us[a].user_id # us[b].user_id
       /\ \A a \in 1..Len(us) :
            us[a].message_count =
              Cardinality({ k \in 1..Len(messages) : messages[k].user_id = us[a].user_id })
       /\ \A a, b \in 1..Len(us) :
            a < b => FirstSeen(us[a].user_id) < FirstSeen(us[b].user_id)
       /\ SumCounts(us) = Len(messages)

\* Author U2 posted three messages and U1 one, interleaved; U2 was seen first.
C10_Witness ==
  /\ cmd = "users" /\ users # None
  /\ Len(messages) = 4
  /\ [k \in 1..4 |-> messages[k].user_id] = <<"U2", "U1", "U2", "U2">>
  /\ Len(users[1]) = 2
  /\ users[1][1].user_id = "U2" /\ users[1][1].message_count = 3
  /\ users[1][2].user_id = "U1" /\ users[1][2].message_count = 1

\* C11: the record sequence of a batch result has exactly total records, in
\* fetch order, and a CSV file of the run is the header row with the ten
\* columns in their fixed order followed by exactly total data rows, one per
\* record, in that order.
C11_CsvRows ==
  (cmd = "scrape" /\ result # None) =>
    LET r == result[1]
    IN /\ Len(r.results) = r.total_messages
       /\ \A k \in 1..Len(r.results) : r.results[k].ts = Wanted(history[1].messages)[k]
       /\ \A f \in files :
            f.form = "csv" =>
              /\ f.header = <<"user_id", "username", "timestamp", "text", "channel_id",
                              "thread_ts", "progress", "next_steps", "processed_at",
                              "confidence_score">>
              /\ Len(f.body) = r.total_messages
              /\ \A k \in 1..Len(f.body) :
                   /\ Len(f.body[k]) = 10
                   /\ f.body[k][1] = r.results[k].user_id
                   /\ f.body[k][2] = r.results[k].username
                   /\ f.body[k][3] = r.results[k].ts
                   /\ f.body[k][7] = r.results[k].progress
                   /\ f.body[k][8] = r.results[k].next_steps
                   /\ f.body[k][10] = r.results[k].confidence_score

\* A CSV file of two data rows, the first of a failed record.
C11_Witness ==
  /\ cmd = "scrape" /\ result # None
  /\ result[1].total_messages = 2
  /\ result[1].failed_messages = 1
  /\ \E f \in files : /\ f.form = "csv"
                      /\ Len(f.body) = 2
                      /\ f.body[1][7] = None /\ f.body[1][8] = None

\* A required variable that is unset or empty.
Missing(e, name) == e[name] = None \/ e[name] = Some("")

RequiredNames == {"SLACK_BOT_TOKEN", "SLACK_CHANNEL_ID", "OPENAI_API_KEY"}

\* The integer each MAX_MESSAGES text stands for once its '#' comment and the
\* surrounding whitespace are removed.
ExpectedLimit ==
  (<<"5">> :> 5) @@ (<<"2", "0">> :> 20) @@
  (<<"5", " ", "#", " ", "m", "a", "x">> :> 5) @@ (<<" ", "7", " ">> :> 7) @@
  (<<"3", "#", "4">> :> 3)

\* C12: Settings() fails with a configuration error naming a variable that is
\* missing whenever the token, the channel id or the model key is missing,
\* whatever the other two and the optional settings are; the message limit of
\* loaded settings is the integer left after the '#' comment and whitespace
\* are stripped.
C12_MissingVariableNamed ==
  (cmd = "config" /\ settings # None) =>
    LET e == env[1]
        r == settings[1]
    IN /\ (\E name \in RequiredNames : Missing(e, name)) =>
            /\ r.exc = "ValueError" /\ pc = "failed"
            /\ r.message \in { name \in RequiredNames : Missing(e, name) }
       /\ r.exc = "none" =>
            r.max_messages =
              Some(IF e.MAX_MESSAGES = None THEN 100 ELSE ExpectedLimit[e.MAX_MESSAGES[1]])

\* C13: the test command makes both checks and reports each on its own: once
\* the command has ended, the Slack check was made and reported, and the
\* completion request for the sample message was made and reported as a
\* success or as a failure, whether the Slack check succeeded or failed.
C13_BothChecksReported ==
  (cmd = "test" /\ pc \in {"done", "failed"}) =>
    /\ HasEvent("auth_test")
    /\ \E k \in 1..Len(log) :
         /\ log[k][1] = "report" /\ log[k][2] = "slack"
         /\ (log[k][3] = "successful") <=> (log[1] = <<"auth_test", "ok">>)
    /\ HasEvent("completion")
    /\ Len(outcome) = 1
    /\ \E k \in 1..Len(log) :
         /\ log[k][1] = "report" /\ log[k][2] = "openai"
         /\ outcome[1] = "failed" => log[k][3] = "failed"

\* C14: any two saves write to distinct paths: a save never writes to the path
\* of a file another save left in the output directory, so every file of the
\* directory is still there, unchanged, after the save.
C14_SavesNeverCollide ==
  [][ (cmd = "save_results" /\ pc = "save" /\ pc' = "done") =>
        /\ \A f \in files : f.name # output_file'[1]
        /\ files \subseteq files' ]_vars

\* The completion requests of the log, in order.
Completions == SelectSeq(log, LAMBDA e : e[1] = "completion")

\* C15: in a run one completion request is issued per fetched message, in fetch
\* order, each after the outcome of the one before was recorded; a failed
\* request is not issued again, a record is changed by the classifier once and
\* by nothing else, and the result sequence is in fetch order.
C15_OneRequestPerMessage ==
  /\ [](cmd = "scrape" =>
          /\ Len(Completions) = idx - 1
          /\ Len(outcome) = Len(Completions)
          /\ Len(Completions) <= Len(messages)
          /\ \A k \in 1..Len(Completions) : Completions[k] = <<"completion", messages[k].ts>>
          /\ \A k \in 1..Len(messages) : (messages[k].processed_at # None) <=> (k < idx)
          /\ result # None =>
               /\ Len(Completions) = Len(messages)
               /\ result[1].results = messages)
  /\ [][ (cmd = "scrape" /\ pc # "fetch") =>
          /\ Len(messages') = Len(messages)
          /\ \A k \in 1..Len(messages) :
               messages'[k] # messages[k] =>
                 /\ k = idx /\ idx' = idx + 1
                 /\ messages[k].processed_at = None
                 /\ log' = Append(log, <<"completion", messages[k].ts>>)
                 /\ Len(outcome') = Len(outcome) + 1
          /\ log' # log /\ log'[Len(log')][1] = "completion" =>
               /\ Len(log') = Len(log) + 1
               /\ messages'[idx].processed_at # None
               /\ idx' = idx + 1 ]_vars

\* A finished batch of two messages whose first request failed: two requests
\* were issued, one per message.
C15_Witness ==
  /\ cmd = "scrape" /\ result # None
  /\ outcome = <<"failed", "answered">>
  /\ Completions = << <<"completion", messages[1].ts>>, <<"completion", messages[2].ts>> >>
  /\ result[1].results = messages

\* The fetch call was made and the history request was answered.
HistoryAnswered ==
  /\ cmd \in {"scrape", "users"}
  /\ history # None
  /\ history[1].status = "ok"

\* What C16 says of the requests and names of a fetch that was not aborted.
LookupsOncePerAuthor ==
  /\ \A a, b \in 1..Len(lookups) : a # b => lookups[a][1] # lookups[b][1]
  /\ \A k \in 1..Len(messages) :
       /\ \E a \in 1..Len(lookups) : lookups[a][1] = messages[k].user_id
       /\ \A a \in 1..Len(lookups) :
            (lookups[a][1] = messages[k].user_id /\ lookups[a][2] \in ApiFailures)
              => messages[k].username = <<"user_", messages[k].user_id>>
  /\ \A j, k \in 1..Len(messages) :
       messages[j].user_id = messages[k].user_id
         => messages[j].username = messages[k].username

\* C16: within one fetch users.info is requested at most once per author id; a
\* failed lookup does not fail the fetch: the fetch continues, every message of
\* that author gets the name user_<id>, and all messages of one author carry
\* the same name.
C16_LookupFailureNotFatal ==
  HistoryAnswered =>
    /\ ~(pc = "failed" /\ err \in ApiFailures)
    /\ LookupsOncePerAuthor

====
